---- MODULE Spec2Model ----
(***************************************************************************)
(* The RAGFlow command-line client (src/cli/cli.py, and the `auth` command *)
(* of src/cli/cli copy.py) as a state machine.  One action is one          *)
(* invocation of a sub-command: it reads the credential file, sends the    *)
(* HTTP requests its handler sends, consumes the responses the remote      *)
(* service gives (chosen nondeterministically: the service is an external  *)
(* collaborator), writes to the two output streams and possibly the        *)
(* credential file, and ends by returning, by exit(1) or by an exception   *)
(* nobody handles.  The state keeps the credential file and the complete   *)
(* record of the last invocation; of the invocations before it, it keeps   *)
(* only whether one of them announced the completion of the task.          *)
(***************************************************************************)
EXTENDS Integers, Sequences, FiniteSets, TLC

VARIABLES
    tokenFile,   \* the file .ragflow_token: [exists, content]
    fileBefore,  \* the credential file as the last invocation found it
    cmd,         \* the sub-command of the last invocation ("none" at start)
    args,        \* its command-line arguments
    server,      \* what the remote service held during the last invocation
    sent,        \* the HTTP requests it sent, in order, each with its response
    out,         \* the lines it wrote to standard output
    err,         \* the lines it wrote to the error stream
    exit,        \* how it ended: "returned", "exit1" or "exception"
    completedBefore  \* history: an invocation before the last one announced
                     \* that the task is complete

vars == <<tokenFile, fileBefore, cmd, args, server, sent, out, err, exit, completedBefore>>

----------------------------------------------------------------------------
(* Bounds of the model. *)

\* passwords are up to PwSlack characters off the two lengths around the minimum
PwSlack == 1
\* a knowledge base of the enumerated kind holds at most MaxDocs documents
MaxDocs == 2
\* progress values are the doubles nearest to n/ProgressDen and the ones just below
ProgressDen == 10

----------------------------------------------------------------------------
(* Strings are sequences of one-character strings. *)

Chars(s) == {s[i] : i \in 1..Len(s)}

WHITESPACE == {" ", "\n", "\t"}

RECURSIVE lstrip(_)
lstrip(s) == IF s # <<>> /\ Head(s) \in WHITESPACE THEN lstrip(Tail(s)) ELSE s

RECURSIVE rstrip(_)
rstrip(s) ==
    IF s # <<>> /\ s[Len(s)] \in WHITESPACE THEN rstrip(SubSeq(s, 1, Len(s) - 1)) ELSE s

\* str.strip()
strip(s) == rstrip(lstrip(s))

----------------------------------------------------------------------------
(* The credential file and the result of a handler. *)

NoFile == [exists |-> FALSE, content |-> <<>>]
FileWith(s) == [exists |-> TRUE, content |-> s]

NoBearer == [present |-> FALSE, token |-> <<>>]
Bearer(t) == [present |-> TRUE, token |-> t]

\* one line of output: the symbol it starts with, which line of the handler
\* wrote it, and the value it shows
Line(mark, id, arg) == [mark |-> mark, id |-> id, arg |-> arg]

\* what an invocation did: requests sent, output, error output, how it ended,
\* and the credential file it leaves
Outcome(s, o, e, x, f) == [sent |-> s, out |-> o, err |-> e, exit |-> x, file |-> f]

Request(ep, bearer, body, resp) == [ep |-> ep, bearer |-> bearer, body |-> body, resp |-> resp]

----------------------------------------------------------------------------
(* HTTP responses.  A response has a status and a body; the body either     *)
(* parses as the JSON envelope {code, message, data} or does not (json =    *)
(* FALSE: r.json() raises).  The key "message" may be missing (hasMsg).     *)

Response(status, json, code, hasMsg, message, data) ==
    [status |-> status, json |-> json, code |-> code,
     hasMsg |-> hasMsg, message |-> message, data |-> data]

Statuses == {200, 500}
Codes == {0, 102}
Messages == {"denied"}

\* the responses the service can give whose data, on success, is in Datas;
\* a failure carries no data the handlers read (none stands for it), and a
\* failure may lack the key "message"
Responses(Msgs, Datas, none) ==
    {Response(s, TRUE, 0, TRUE, m, d) : s \in Statuses, m \in Msgs, d \in Datas}
    \cup {Response(s, TRUE, c, TRUE, m, none) :
        s \in Statuses, c \in Codes \ {0}, m \in Msgs}
    \cup {Response(s, TRUE, c, FALSE, "", none) : s \in Statuses, c \in Codes \ {0}}
    \cup {Response(s, FALSE, 0, FALSE, "", none) : s \in Statuses}

\* dict.get('message', default)
get_message(r, default) == IF r.hasMsg THEN r.message ELSE default

\* an exchange the spec counts as failed: non-2xx status, unparsable body,
\* or a non-zero code
Is2xx(r) == r.status >= 200 /\ r.status < 300
Failed(r) == ~Is2xx(r) \/ ~r.json \/ r.code # 0

----------------------------------------------------------------------------
(* cli.py: token storage and the bearer header. *)

\* get_token(): the stripped content of the file, or exit(1) when the file
\* does not exist
get_token(file) ==
    IF file.exists
    THEN [ok |-> TRUE, token |-> strip(file.content)]
    ELSE [ok |-> FALSE, token |-> <<>>]

\* get_headers(): {"Authorization": f"Bearer {get_token()}"}
get_headers(file) == Bearer(get_token(file).token)

\* what get_token() does when the file is missing
NotAuthenticated(file) ==
    Outcome(<<>>, <<>>, <<Line("cross", "not_authenticated", "login")>>, "exit1", file)

\* a plausible slip: the credential file opened for writing before the
\* response is read
raise_after_truncate(s, o, e, file) == Outcome(s, o, e, "exception", FileWith(<<>>))

\* an exception nobody catches ends the command with a traceback
Raise(s, o, e, file) == Outcome(s, o, e, "exception", file)

----------------------------------------------------------------------------
(* cli.py: register and login. *)

SYMBOLS == {"!", "@", "#", "$", "%", "^", "&", "*", "(", ")", ",", ".", "?",
            "\"", ":", "{", "}", "|", "<", ">"}

\* a plausible slip: the length check off by one
ShorterMinimum == 9 - 1

MIN_PASSWORD_LEN == 9

RAGFLOW_PREFIX == <<"r", "a", "g", "f", "l", "o", "w", "-">>

register(file, password, r1, r2) ==
    IF Len(password) < MIN_PASSWORD_LEN
    THEN Outcome(<<>>, <<>>, <<Line("cross", "password_too_short", "")>>, "returned", file)
    ELSE IF Chars(password) \cap SYMBOLS = {}
    THEN Outcome(<<>>, <<>>, <<Line("cross", "password_no_symbol", "")>>, "returned", file)
    ELSE
      LET q1 == Request("POST /v1/user/register", NoBearer, password, r1)
          q2 == Request("POST /v1/system/new_token", NoBearer, <<>>, r2)
      IN  IF r1.status # 200
          THEN IF ~r1.json THEN Raise(<<q1>>, <<>>, <<>>, file)
               ELSE Outcome(<<q1>>, <<>>,
                      <<Line("cross", "register_failed", get_message(r1, "Registration failed"))>>,
                      "returned", file)
          ELSE IF ~r1.json THEN Raise(<<q1>>, <<>>, <<>>, file)
          ELSE IF r1.code # 0
          THEN Outcome(<<q1>>, <<>>,
                      <<Line("cross", "register_failed", get_message(r1, "Registration failed"))>>,
                      "returned", file)
          ELSE IF r2.status = 200 /\ ~r2.json THEN Raise(<<q1, q2>>, <<>>, <<>>, file)
          ELSE IF r2.status = 200 /\ r2.code = 0
          THEN Outcome(<<q1, q2>>, <<Line("check", "registered_authenticated", "")>>, <<>>,
                       "returned", FileWith(r2.data.token))
          ELSE Outcome(<<q1, q2>>, <<Line("check", "registered_now_login", "")>>, <<>>,
                       "returned", file)

login(file, r) ==
    LET q == Request("POST /v1/user/login", NoBearer, <<>>, r)
    IN  IF r.status = 200 /\ ~r.json THEN Raise(<<q>>, <<>>, <<>>, file)
        ELSE IF r.status = 200 /\ r.code = 0
        THEN Outcome(<<q>>, <<Line("check", "authenticated", "")>>, <<>>, "returned",
                     FileWith(RAGFLOW_PREFIX \o r.data.token))
        ELSE IF ~r.json THEN Raise(<<q>>, <<>>, <<>>, file)
        ELSE Outcome(<<q>>, <<>>,
                     <<Line("cross", "login_failed", get_message(r, "Login failed"))>>,
                     "returned", file)

----------------------------------------------------------------------------
(* cli.py: create-kb, upload, run-task, test-retrieval. *)

create_kb(file, name, r) ==
    IF ~get_token(file).ok THEN NotAuthenticated(file)
    ELSE
      LET q == Request("POST /api/v1/datasets", get_headers(file), name, r)
      IN  IF ~r.json THEN Raise(<<q>>, <<>>, <<>>, file)
          ELSE IF r.code = 0
          THEN Outcome(<<q>>, <<Line("check", "kb_created", r.data.id),
                                Line("plain", "next_upload", r.data.id)>>,
                       <<>>, "returned", file)
          ELSE Outcome(<<q>>, <<>>,
                       <<Line("cross", "create_failed", get_message(r, "r.text"))>>,
                       "returned", file)

upload(file, kb_id, path, pathExists, r) ==
    IF ~get_token(file).ok THEN NotAuthenticated(file)
    ELSE IF ~pathExists
    THEN Outcome(<<>>, <<>>, <<Line("cross", "file_not_found", path)>>, "returned", file)
    ELSE
      LET q == Request("POST /api/v1/datasets/{kb_id}/documents", get_headers(file), path, r)
          o == <<Line("plain", "uploading", path)>>
      IN  IF ~r.json
          THEN Outcome(<<q>>, o, <<Line("cross", "error_parsing_response", "r.text")>>,
                       "returned", file)
          ELSE IF r.code = 0
          THEN Outcome(<<q>>, o \o <<Line("check", "uploaded", "")>>, <<>>, "returned", file)
          ELSE Outcome(<<q>>, o,
                       <<Line("cross", "upload_failed", get_message(r, "None"))>>,
                       "returned", file)

TASKS == {"graphrag", "raptor"}

run_task(file, kb_id, task, r) ==
    IF ~get_token(file).ok THEN NotAuthenticated(file)
    ELSE
      LET q == Request("POST /api/v1/datasets/{kb_id}/run_" \o task, get_headers(file), <<>>, r)
      IN  IF ~r.json THEN Raise(<<q>>, <<>>, <<>>, file)
          ELSE IF r.code = 0
          THEN Outcome(<<q>>, <<Line("check", "task_started", task),
                                Line("info", "check_status_hint", task)>>,
                       <<>>, "returned", file)
          ELSE Outcome(<<q>>, <<>>,
                       <<Line("cross", "run_failed", get_message(r, "None"))>>,
                       "returned", file)

\* r.data.chunks is the number of chunks the service returned
test_retrieval(file, kb_id, question, r) ==
    IF ~get_token(file).ok THEN NotAuthenticated(file)
    ELSE
      LET q == Request("POST /api/v1/retrieval", get_headers(file), question, r)
          o == <<Line("plain", "searching", question)>>
      IN  IF ~r.json THEN Raise(<<q>>, o, <<>>, file)
          ELSE IF r.code = 0
          THEN IF r.data.chunks = 0
               THEN Outcome(<<q>>, o \o <<Line("warn", "no_results", "")>>, <<>>,
                            "returned", file)
               ELSE Outcome(<<q>>,
                            o \o <<Line("check", "found_chunks", r.data.chunks)>>
                              \o [i \in 1..r.data.chunks |-> Line("plain", "chunk_preview", i)],
                            <<>>, "returned", file)
          ELSE Outcome(<<q>>, o,
                       <<Line("cross", "retrieval_failed", get_message(r, "None"))>>,
                       "returned", file)

----------------------------------------------------------------------------
(* Documents of a knowledge base, as the listing endpoint returns them.     *)

\* a document: its id and its "run" status; the key "run" may be missing
Doc(id, hasRun, run) == [id |-> id, hasRun |-> hasRun, run |-> run]

\* doc.get('run', default)
get_run(d, default) == IF d.hasRun THEN d.run ELSE default

\* the service's listing of page `page` with `page_size` documents a page
Page(docs, page, page_size) ==
    SubSeq(docs, (page - 1) * page_size + 1,
           IF page * page_size < Len(docs) THEN page * page_size ELSE Len(docs))

START_PARSING_PAGE_SIZE == 1000
LIST_DOCUMENTS_PAGE_SIZE == 20

PARSE_TARGETS == {"UNSTART", "0", "FAIL", "4"}

\* [d["id"] for d in docs if d.get("run") in ["UNSTART", "0", "FAIL", "4"]]
target_ids_of(docs) ==
    LET targets == SelectSeq(docs, LAMBDA d : get_run(d, "None") \in PARSE_TARGETS)
    IN  [i \in 1..Len(targets) |-> targets[i].id]

\* r1.data.docs is the page of documents the listing returned
start_parsing(file, kb_id, r1, r2) ==
    IF ~get_token(file).ok THEN NotAuthenticated(file)
    ELSE
      LET q1 == Request("GET /api/v1/datasets/{kb_id}/documents", get_headers(file),
                        [page |-> 1, page_size |-> START_PARSING_PAGE_SIZE], r1)
          target_ids == target_ids_of(r1.data.docs)
          q2 == Request("POST /api/v1/datasets/{kb_id}/chunks", get_headers(file),
                        [document_ids |-> target_ids], r2)
          o == <<Line("plain", "starting_parsing", Len(target_ids))>>
      IN  IF ~r1.json THEN Raise(<<q1>>, <<>>, <<>>, file)
          ELSE IF r1.code # 0
          THEN Outcome(<<q1>>, <<>>,
                       <<Line("cross", "list_failed", get_message(r1, "None"))>>,
                       "returned", file)
          ELSE IF target_ids = <<>>
          THEN Outcome(<<q1>>, <<Line("check", "nothing_to_parse", "")>>, <<>>,
                       "returned", file)
          ELSE IF ~r2.json THEN Raise(<<q1, q2>>, o, <<>>, file)
          ELSE IF r2.code = 0
          THEN Outcome(<<q1, q2>>,
                       o \o <<Line("check", "parsing_started", ""),
                              Line("info", "use_list_documents", "")>>,
                       <<>>, "returned", file)
          ELSE Outcome(<<q1, q2>>, o,
                       <<Line("cross", "start_failed", get_message(r2, "None"))>>,
                       "returned", file)

\* a plausible slip: the flag set from the last document only
last_done(docs) == docs = <<>> \/ get_run(docs[Len(docs)], "UNKNOWN") = "DONE"

\* all_done of the loop over docs: no status differs from 'DONE'
all_done(docs) == \A i \in 1..Len(docs) : get_run(docs[i], "UNKNOWN") = "DONE"

list_documents(file, kb_id, r) ==
    IF ~get_token(file).ok THEN NotAuthenticated(file)
    ELSE
      LET q == Request("GET /api/v1/datasets/{kb_id}/documents", get_headers(file),
                       [page |-> 1, page_size |-> LIST_DOCUMENTS_PAGE_SIZE], r)
          docs == r.data.docs
          rows == [i \in 1..Len(docs) |->
                     Line("plain", "row", get_run(docs[i], "UNKNOWN"))]
          table == <<Line("plain", "table_header", ""), Line("plain", "table_rule", "")>>
                   \o rows
      IN  IF ~r.json THEN Raise(<<q>>, <<>>, <<>>, file)
          ELSE IF r.code = 0
          THEN IF docs = <<>>
               THEN Outcome(<<q>>, <<Line("plain", "no_documents", "")>>, <<>>,
                            "returned", file)
               ELSE IF all_done(docs)
               THEN Outcome(<<q>>, table \o <<Line("complete", "all_parsed", "")>>, <<>>,
                            "returned", file)
               ELSE Outcome(<<q>>, table \o <<Line("wait", "still_processing", "")>>, <<>>,
                            "returned", file)
          ELSE Outcome(<<q>>, <<>>,
                       <<Line("cross", "fetch_failed", get_message(r, "None"))>>,
                       "returned", file)

----------------------------------------------------------------------------
(* cli.py: configure-rag.  A dict is a function on the set of its keys.     *)

EmptyDict == [k \in {} |-> TRUE]

HasKey(d, k) == k \in DOMAIN d

\* d[k] = v
SetItem(d, k, v) == [x \in (DOMAIN d) \cup {k} |-> IF x = k THEN v ELSE d[x]]

\* a plausible slip: d[k] = {k2: v}, which drops the other keys of d[k]
ReplaceItem(d, k, k2, v) == SetItem(d, k, SetItem(EmptyDict, k2, v))

\* d.setdefault(k, {})[k2] = v
SetDefaultItem(d, k, k2, v) ==
    SetItem(d, k, SetItem(IF HasKey(d, k) THEN d[k] ELSE EmptyDict, k2, v))

\* r1.data is the list of knowledge bases found, each [hasCfg, parser_config]
configure_rag(file, kb_id, graphrag, raptor, r1, r2) ==
    IF ~get_token(file).ok THEN NotAuthenticated(file)
    ELSE
      LET q1 == Request("GET /api/v1/datasets", get_headers(file),
                        [id |-> kb_id, page |-> 1, page_size |-> 1], r1)
          kb_info == r1.data[1]
          fetched == IF kb_info.hasCfg THEN kb_info.parser_config ELSE EmptyDict
          cfg1 == IF graphrag
                  THEN SetDefaultItem(fetched, "graphrag", "use_graphrag", TRUE)
                  ELSE fetched
          parser_config == IF raptor
                           THEN SetDefaultItem(cfg1, "raptor", "use_raptor", TRUE)
                           ELSE cfg1
          updates_made == (IF graphrag THEN <<"GraphRAG">> ELSE <<>>)
                          \o (IF raptor THEN <<"RAPTOR">> ELSE <<>>)
          q2 == Request("PUT /api/v1/datasets/{kb_id}", get_headers(file),
                        [parser_config |-> parser_config], r2)
      IN  IF ~r1.json THEN Raise(<<q1>>, <<>>, <<>>, file)
          ELSE IF r1.code # 0 \/ r1.data = <<>>
          THEN Outcome(<<q1>>, <<>>,
                       <<Line("cross", "fetch_kb_failed", get_message(r1, "KB not found"))>>,
                       "returned", file)
          ELSE IF updates_made = <<>>
          THEN Outcome(<<q1>>, <<Line("warn", "no_options", "")>>, <<>>, "returned", file)
          ELSE IF ~r2.json THEN Raise(<<q1, q2>>, <<>>, <<>>, file)
          ELSE IF r2.code = 0
          THEN Outcome(<<q1, q2>>,
                       <<Line("check", "enabled", updates_made),
                         Line("info", "run_task_hint", kb_id)>>,
                       <<>>, "returned", file)
          ELSE Outcome(<<q1, q2>>, <<>>,
                       <<Line("cross", "update_failed", get_message(r2, "None"))>>,
                       "returned", file)

----------------------------------------------------------------------------
(* Python floats.  A float is an IEEE 754 double: a sign and m * 2^e with   *)
(* m an integer of MANT_BITS bits, kept as the sequence of its bits, lowest *)
(* first (<<>> is zero).  Every operation computes the exact result and     *)
(* rounds it to the nearest double, ties to even, as the hardware does.     *)
(* The values here stay far from the subnormal and the infinite ranges.     *)

MANT_BITS == 53

Zeros(n) == [i \in 1..n |-> 0]

RECURSIVE NatBits(_)
NatBits(n) == IF n = 0 THEN <<>> ELSE <<n % 2>> \o NatBits(n \div 2)

RECURSIVE BitsNat(_)
BitsNat(b) == IF b = <<>> THEN 0 ELSE b[1] + 2 * BitsNat(Tail(b))

RECURSIVE BitLen(_)
BitLen(b) ==
    IF b = <<>> THEN 0
    ELSE IF b[Len(b)] = 1 THEN Len(b) ELSE BitLen(SubSeq(b, 1, Len(b) - 1))

\* a number's bits as 16-bit limbs, lowest first, and back
ToLimbs(b) ==
    [j \in 1..((Len(b) + 15) \div 16) |->
        BitsNat(SubSeq(b, 16 * (j - 1) + 1, IF 16 * j < Len(b) THEN 16 * j ELSE Len(b)))]

FromLimbs(l) ==
    [i \in 1..(16 * Len(l)) |-> (l[((i - 1) \div 16) + 1] \div (2 ^ ((i - 1) % 16))) % 2]

RECURSIVE MulLimbs(_, _, _)
\* the limbs of l * k + c, for 0 < k < 2^15
MulLimbs(l, k, c) ==
    IF l = <<>> THEN <<c>>
    ELSE <<(l[1] * k + c) % 65536>> \o MulLimbs(Tail(l), k, (l[1] * k + c) \div 65536)

\* the bits of b * k
MulBits(b, k) == FromLimbs(MulLimbs(ToLimbs(b), k, 0))

RECURSIVE DivLimbs(_, _, _, _)
\* long division of the limbs l[1..i] by d < 2^15, with rem carried in from above
DivLimbs(l, d, i, rem) ==
    IF i = 0 THEN [q |-> <<>>, r |-> rem]
    ELSE LET rest == DivLimbs(l, d, i - 1, (rem * 65536 + l[i]) % d)
         IN  [q |-> Append(rest.q, (rem * 65536 + l[i]) \div d), r |-> rest.r]

\* quotient (as bits) and remainder of b / d
DivBits(b, d) ==
    LET dv == DivLimbs(ToLimbs(b), d, Len(ToLimbs(b)), 0)
    IN  [q |-> FromLimbs(dv.q), r |-> dv.r]

RECURSIVE Inc(_)
Inc(b) ==
    IF b = <<>> THEN <<1>>
    ELSE IF b[1] = 0 THEN <<1>> \o Tail(b) ELSE <<0>> \o Inc(Tail(b))

RECURSIVE Dec(_)
Dec(b) == IF b[1] = 1 THEN <<0>> \o Tail(b) ELSE <<1>> \o Dec(Tail(b))

Float(neg, m, e) == [neg |-> neg, m |-> m, e |-> e]

FZero == Float(FALSE, <<>>, 0)

\* the double nearest to bits * 2^e (plus a nonzero fraction below the last
\* bit when sticky), ties to even
RoundNearestEven(neg, bits, e, sticky) ==
    LET L == BitLen(bits) IN
    IF L = 0 THEN FZero
    ELSE IF L <= MANT_BITS
    THEN Float(neg, Zeros(MANT_BITS - L) \o SubSeq(bits, 1, L), e - (MANT_BITS - L))
    ELSE
      LET s == L - MANT_BITS
          q == SubSeq(bits, s + 1, L)
          below == sticky \/ \E i \in 1..(s - 1) : bits[i] = 1
          up == bits[s] = 1 /\ (below \/ q[1] = 1)
          m1 == IF up THEN Inc(q) ELSE q
      IN  IF Len(m1) > MANT_BITS
          THEN Float(neg, SubSeq(m1, 2, MANT_BITS + 1), e + s + 1)
          ELSE Float(neg, m1, e + s)

\* x * k for an int k > 0
FMulInt(x, k) == RoundNearestEven(x.neg, MulBits(x.m, k), x.e, FALSE)

\* x / d for an int d > 0
FDivInt(x, d) ==
    LET dv == DivBits(Zeros(MANT_BITS + 11) \o x.m, d)
    IN  RoundNearestEven(x.neg, dv.q, x.e - (MANT_BITS + 11), dv.r # 0)

\* the integer part of bits * 2^e
IntPart(bits, e) ==
    IF e >= 0 THEN BitsNat(Zeros(e) \o bits)
    ELSE IF -e >= Len(bits) THEN 0
    ELSE BitsNat(SubSeq(bits, 1 - e, Len(bits)))

\* int(x): truncation toward zero
FInt(x) == IF x.neg THEN -IntPart(x.m, x.e) ELSE IntPart(x.m, x.e)

\* a plausible slip: completion remembered from an earlier poll
ge_or_completed(x, n) == completedBefore \/ (~x.neg /\ IntPart(x.m, x.e) >= n)

\* x >= n for an int n >= 1
FGeInt(x, n) == ~x.neg /\ IntPart(x.m, x.e) >= n

\* the float a JSON number n/d (n >= 0, d > 0) parses to
FParse(n, d) ==
    LET dv == DivBits(Zeros(MANT_BITS + 11) \o NatBits(n), d)
    IN  RoundNearestEven(FALSE, dv.q, -(MANT_BITS + 11), dv.r # 0)

FNeg(x) == Float(~x.neg, x.m, x.e)

\* the next double above and below a positive x
FSucc(x) ==
    LET m1 == Inc(x.m) IN
    IF Len(m1) > MANT_BITS THEN Float(x.neg, SubSeq(m1, 2, MANT_BITS + 1), x.e + 1)
    ELSE Float(x.neg, m1, x.e)

FPred(x) ==
    IF x.m = Zeros(MANT_BITS - 1) \o <<1>>
    THEN Float(x.neg, [i \in 1..MANT_BITS |-> 1], x.e - 1)
    ELSE Float(x.neg, Dec(x.m), x.e)

----------------------------------------------------------------------------
(* cli.py: check-task. *)

BAR_LENGTH == 20
FILL == "#"
EMPTY == "-"

\* Python's c * n: empty when n <= 0
Times(c, n) == IF n > 0 THEN [i \in 1..n |-> c] ELSE <<>>

\* int(bar_length * progress / 100)
filled_length_of(progress) == FInt(FDivInt(FMulInt(progress, BAR_LENGTH), 100))

\* '#' * filled_length + '-' * (bar_length - filled_length)
bar_of(filled_length) == Times(FILL, filled_length) \o Times(EMPTY, BAR_LENGTH - filled_length)

\* r.data is the task: [empty, id, hasProgress, progress, hasMsg, progress_msg]
check_task(file, kb_id, task, r) ==
    IF ~get_token(file).ok THEN NotAuthenticated(file)
    ELSE
      LET q == Request("GET /api/v1/datasets/{kb_id}/trace_" \o task, get_headers(file), <<>>, r)
          task_info == r.data
          progress == FMulInt(IF task_info.hasProgress THEN task_info.progress ELSE FZero, 100)
          status_msg == IF task_info.hasMsg THEN task_info.progress_msg ELSE "Processing..."
          bar == bar_of(filled_length_of(progress))
          shown == <<Line("plain", "task_header", task_info.id),
                     Line("plain", "progress_bar", bar),
                     Line("plain", "status", status_msg)>>
      IN  IF ~r.json THEN Raise(<<q>>, <<>>, <<>>, file)
          ELSE IF r.code = 0
          THEN IF task_info.empty
               THEN Outcome(<<q>>, <<Line("warn", "no_active_task", task)>>, <<>>,
                            "returned", file)
               ELSE IF FGeInt(progress, 100)
               THEN Outcome(<<q>>, shown \o <<Line("complete", "task_complete", "")>>, <<>>,
                            "returned", file)
               ELSE Outcome(<<q>>, shown, <<>>, "returned", file)
          ELSE Outcome(<<q>>, <<>>,
                       <<Line("cross", "check_failed", get_message(r, "None"))>>,
                       "returned", file)

----------------------------------------------------------------------------
(* cli copy.py: auth, the variant that registers, falls back to login, and  *)
(* then asks for an API token with the session cookie.                      *)

ALREADY_REGISTERED == {"Email: a@b.c has already registered!"}

\* "already registered" in data.get("message", "").lower()
already_registered(r) == r.hasMsg /\ r.message \in ALREADY_REGISTERED

\* r1: the registration, r2: the login (when sent), cookie: whether the
\* session then holds a 'session' cookie, r3: the token request (when sent)
auth(file, r1, r2, cookie, r3) ==
    LET q1 == Request("POST /v1/user/register", NoBearer, <<>>, r1)
        q2 == Request("POST /v1/user/login", NoBearer, <<>>, r2)
        q3 == Request("POST /v1/system/new_token", NoBearer, <<>>, r3)
        \* from the session cookie on, after the requests qs and the output o
        token_step(qs, o) ==
            IF ~cookie
            THEN Outcome(qs, o, <<Line("cross", "no_session_cookie", "")>>, "exit1", file)
            ELSE IF r3.status = 200 /\ ~r3.json THEN Raise(qs \o <<q3>>, o, <<>>, file)
            ELSE IF r3.status = 200 /\ r3.code = 0
            THEN Outcome(qs \o <<q3>>, o \o <<Line("check", "token_saved", "")>>, <<>>,
                         "returned", FileWith(r3.data.token))
            ELSE Outcome(qs \o <<q3>>, o \o <<Line("warn", "no_token_generated", "")>>, <<>>,
                         "returned", file)
    IN  IF r1.status # 200 THEN Outcome(<<q1>>, <<>>, <<>>, "returned", file)
        ELSE IF ~r1.json THEN Raise(<<q1>>, <<>>, <<>>, file)
        ELSE IF r1.code = 0
        THEN IF ~r1.hasMsg THEN Raise(<<q1>>, <<>>, <<>>, file)
             ELSE token_step(<<q1>>, <<Line("check", "registered", r1.message)>>)
        ELSE IF already_registered(r1)
        THEN IF ~r2.json THEN Raise(<<q1, q2>>, <<>>, <<>>, file)
             ELSE IF ~r2.hasMsg THEN Raise(<<q1, q2>>, <<>>, <<>>, file)
             ELSE IF r2.code = 0
             THEN token_step(<<q1, q2>>, <<Line("check", "logged_in", r2.message)>>)
             ELSE Outcome(<<q1, q2>>, <<>>,
                          <<Line("cross", "login_failed", r2.message)>>, "exit1", file)
        ELSE IF ~r1.hasMsg THEN Raise(<<q1>>, <<>>, <<>>, file)
        ELSE Outcome(<<q1>>, <<>>,
                     <<Line("cross", "register_failed", r1.message)>>, "exit1", file)

----------------------------------------------------------------------------
(* The remote service: the documents of the knowledge base, the enrichment  *)
(* task it traces, and the knowledge bases the dataset listing finds.       *)

Server(docs, task, kbs) == [docs |-> docs, task |-> task, kbs |-> kbs]

RUNS == {"UNSTART", "RUNNING", "DONE", "FAIL", "0", "4"}

\* the documents with the given statuses ("" for a document without "run")
DocsOf(runs) == [i \in 1..Len(runs) |-> Doc(i, runs[i] # "", runs[i])]

\* a knowledge base that holds one document more than the page start-parsing
\* asks for: the first page in status a, the last document in status b
LargeKb(a, b) ==
    DocsOf([i \in 1..(START_PARSING_PAGE_SIZE + 1) |->
              IF i <= START_PARSING_PAGE_SIZE THEN a ELSE b])

TaskInfo(empty, hasProgress, progress, hasMsg) ==
    [empty |-> empty, id |-> "task1", hasProgress |-> hasProgress, progress |-> progress,
     hasMsg |-> hasMsg, progress_msg |-> "Extracting"]

NoTask == TaskInfo(TRUE, FALSE, FZero, FALSE)

\* the doubles nearest to the multiples of 1/ProgressDen in [0, 1], and the
\* double just below each
UnitProgress ==
    {FZero} \cup {FParse(n, ProgressDen) : n \in 1..ProgressDen}
            \cup {FPred(FParse(n, ProgressDen)) : n \in 1..ProgressDen}

\* progress is the service's to report: also values outside [0, 1]
OtherProgress ==
    {FSucc(FParse(1, 1)), FParse(3, 2), FParse(2, 1), FNeg(FParse(1, 2)),
     FNeg(FParse(1, ProgressDen)), FNeg(FParse(1, 1))}

Tasks ==
    {NoTask, TaskInfo(FALSE, FALSE, FZero, TRUE), TaskInfo(FALSE, TRUE, FParse(1, 2), FALSE)}
    \cup {TaskInfo(FALSE, TRUE, p, TRUE) : p \in UnitProgress \cup OtherProgress}

KbInfo(hasCfg, parser_config) == [hasCfg |-> hasCfg, parser_config |-> parser_config]

ParserConfigs ==
    {EmptyDict,
     [chunk_token_num |-> 128],
     [chunk_token_num |-> 128, graphrag |-> [use_graphrag |-> FALSE, method |-> "light"]],
     [graphrag |-> [use_graphrag |-> TRUE], raptor |-> [use_raptor |-> FALSE]]}

KbLists == {<<>>, <<KbInfo(FALSE, EmptyDict)>>} \cup {<<KbInfo(TRUE, c)>> : c \in ParserConfigs}

Server0 == Server(<<>>, NoTask, <<>>)

----------------------------------------------------------------------------
(* Inputs. *)

Tokens == {<<>>, <<"a">>, <<"a", "\n">>}

PwChars == {"a", "1", "!", "_"}

\* passwords around the minimum length, their last character varying
Passwords ==
    {[i \in 1..n |-> IF i = n THEN c ELSE "a"] :
        n \in (MIN_PASSWORD_LEN - 1 - PwSlack)..(MIN_PASSWORD_LEN + PwSlack), c \in PwChars}

NoData == [token |-> <<>>]
TokenResponses == Responses(Messages, {[token |-> t] : t \in Tokens}, NoData)
PlainResponses == Responses(Messages, {NoData}, NoData)
\* auth reads the message of a success too: it may be missing there as well
AuthResponses ==
    Responses(Messages \cup ALREADY_REGISTERED, {NoData}, NoData)
    \cup {Response(s, TRUE, 0, FALSE, "", NoData) : s \in Statuses}
KbResponses == Responses(Messages, {[id |-> "kb123"]}, [id |-> ""])
ChunkResponses == Responses(Messages, {[chunks |-> 0], [chunks |-> 2]}, [chunks |-> 0])
DocResponses(docs) == Responses(Messages, {[docs |-> docs]}, [docs |-> <<>>])
TaskResponses(task) == Responses(Messages, {task}, NoTask)
KbListResponses(kbs) == Responses(Messages, {kbs}, <<>>)

\* a response that stands for "not sent"
Unsent == Response(0, FALSE, 0, FALSE, "", NoData)

----------------------------------------------------------------------------
(* Actions: one invocation of a sub-command each.  The responses are the    *)
(* service's choice; a response is chosen only for a request that is sent.  *)

\* whether the invocation with outcome o sent a request to endpoint ep
Sends(o, ep) == \E i \in 1..Len(o.sent) : o.sent[i].ep = ep

\* the responses to choose from for the n-th request of an invocation whose
\* outcome is o when that request gets no answer
Answers(o, n, responses) == IF Len(o.sent) >= n THEN responses ELSE {Unsent}

\* the last invocation announced that the task is complete
AnnouncedComplete == \E i \in 1..Len(out) : out[i].id = "task_complete"

Invoke(c, a, o) ==
    /\ completedBefore' = (completedBefore \/ AnnouncedComplete)
    /\ cmd' = c
    /\ args' = a
    /\ fileBefore' = tokenFile
    /\ tokenFile' = o.file
    /\ sent' = o.sent
    /\ out' = o.out
    /\ err' = o.err
    /\ exit' = o.exit
    /\ UNCHANGED server

Register ==
    \E password \in Passwords :
      \E r1 \in Answers(register(tokenFile, password, Unsent, Unsent), 1, PlainResponses) :
        \E r2 \in Answers(register(tokenFile, password, r1, Unsent), 2, TokenResponses) :
          Invoke("register", [password |-> password],
                 register(tokenFile, password, r1, r2))

Login ==
    \E r \in TokenResponses : Invoke("login", <<>>, login(tokenFile, r))

Auth ==
    \E r1 \in AuthResponses :
      \E r2 \in (IF Sends(auth(tokenFile, r1, Unsent, TRUE, Unsent), "POST /v1/user/login")
                 THEN AuthResponses ELSE {Unsent}) :
        \E cookie \in (IF auth(tokenFile, r1, r2, TRUE, Unsent)
                          # auth(tokenFile, r1, r2, FALSE, Unsent)
                       THEN BOOLEAN ELSE {FALSE}) :
          \E r3 \in (IF Sends(auth(tokenFile, r1, r2, cookie, Unsent),
                              "POST /v1/system/new_token")
                     THEN TokenResponses ELSE {Unsent}) :
            Invoke("auth", [cookie |-> cookie], auth(tokenFile, r1, r2, cookie, r3))

CreateKb ==
    \E r \in Answers(create_kb(tokenFile, "demo", Unsent), 1, KbResponses) :
      Invoke("create-kb", [name |-> "demo"], create_kb(tokenFile, "demo", r))

Upload ==
    \E pathExists \in BOOLEAN :
      \E r \in Answers(upload(tokenFile, "kb123", "a.pdf", pathExists, Unsent), 1,
                       PlainResponses) :
        Invoke("upload", [file |-> "a.pdf", exists |-> pathExists],
               upload(tokenFile, "kb123", "a.pdf", pathExists, r))

RunTask ==
    \E task \in TASKS :
      \E r \in Answers(run_task(tokenFile, "kb123", task, Unsent), 1, PlainResponses) :
        Invoke("run-task", [task |-> task], run_task(tokenFile, "kb123", task, r))

TestRetrieval ==
    \E r \in Answers(test_retrieval(tokenFile, "kb123", "refund policy", Unsent), 1,
                     ChunkResponses) :
      Invoke("test-retrieval", [question |-> "refund policy"],
             test_retrieval(tokenFile, "kb123", "refund policy", r))

\* the listing answers with the page the command asked for
StartParsing ==
    \E r1 \in Answers(start_parsing(tokenFile, "kb123", Unsent, Unsent), 1,
                      DocResponses(Page(server.docs, 1, START_PARSING_PAGE_SIZE))) :
      \E r2 \in Answers(start_parsing(tokenFile, "kb123", r1, Unsent), 2, PlainResponses) :
        Invoke("start-parsing", <<>>, start_parsing(tokenFile, "kb123", r1, r2))

ListDocuments ==
    \E r \in Answers(list_documents(tokenFile, "kb123", Unsent), 1,
                     DocResponses(Page(server.docs, 1, LIST_DOCUMENTS_PAGE_SIZE))) :
      Invoke("list-documents", <<>>, list_documents(tokenFile, "kb123", r))

CheckTask ==
    \E task \in TASKS :
      \E r \in Answers(check_task(tokenFile, "kb123", task, Unsent), 1,
                       TaskResponses(server.task)) :
        Invoke("check-task", [task |-> task], check_task(tokenFile, "kb123", task, r))

ConfigureRag ==
    \E graphrag \in BOOLEAN, raptor \in BOOLEAN :
      \E r1 \in Answers(configure_rag(tokenFile, "kb123", graphrag, raptor, Unsent, Unsent),
                        1, KbListResponses(server.kbs)) :
        \E r2 \in Answers(configure_rag(tokenFile, "kb123", graphrag, raptor, r1, Unsent),
                          2, PlainResponses) :
          Invoke("configure-rag", [graphrag |-> graphrag, raptor |-> raptor],
                 configure_rag(tokenFile, "kb123", graphrag, raptor, r1, r2))

----------------------------------------------------------------------------
(* Between two invocations the service moves on: other clients and its      *)
(* background jobs change what it holds.  The record of the last invocation *)
(* describes the service as that invocation saw it, so it is dropped then.  *)

MoveOn(sv) ==
    /\ completedBefore' = (completedBefore \/ AnnouncedComplete)
    /\ server' = sv
    /\ cmd' = "none"
    /\ args' = <<>>
    /\ fileBefore' = tokenFile
    /\ sent' = <<>>
    /\ out' = <<>>
    /\ err' = <<>>
    /\ exit' = "returned"
    /\ UNCHANGED tokenFile

\* the service empty, or holding documents, a task and a knowledge base
FewServers ==
    {Server0,
     Server(DocsOf(<<"UNSTART", "DONE">>), TaskInfo(FALSE, TRUE, FParse(1, 2), TRUE),
            <<KbInfo(TRUE, [chunk_token_num |-> 128])>>)}

ServiceChange == \E sv \in FewServers \ {server} : MoveOn(sv)

\* a document added or removed, or the last document in another status; an
\* empty knowledge base filled by a bulk import, or an imported one emptied
NearDocs(docs) ==
    (IF Len(docs) < MaxDocs
     THEN {Append(docs, Doc(Len(docs) + 1, run # "", run)) : run \in RUNS \cup {""}}
     ELSE {})
    \cup (IF Len(docs) \in 1..MaxDocs
          THEN {SubSeq(docs, 1, Len(docs) - 1)}
               \cup {[docs EXCEPT ![Len(docs)] = Doc(Len(docs), run # "", run)] :
                       run \in (RUNS \cup {""}) \ {docs[Len(docs)].run}}
          ELSE {})
    \cup (IF docs = <<>>
          THEN {LargeKb(a, b) : a \in {"UNSTART", "DONE"}, b \in {"UNSTART", "DONE"}}
          ELSE {})
    \cup (IF Len(docs) > MaxDocs THEN {<<>>} ELSE {})

DocsChange == \E docs \in NearDocs(server.docs) : MoveOn([server EXCEPT !.docs = docs])

\* the task's progress rises, falls or disappears
TaskChange == \E t \in Tasks \ {server.task} : MoveOn([server EXCEPT !.task = t])

KbsChange == \E kbl \in KbLists \ {server.kbs} : MoveOn([server EXCEPT !.kbs = kbl])

----------------------------------------------------------------------------
(* Specifications. *)

\* before the first invocation: no credential file
Init ==
    /\ tokenFile = NoFile
    /\ fileBefore = NoFile
    /\ cmd = "none"
    /\ args = <<>>
    /\ server = Server0
    /\ sent = <<>>
    /\ out = <<>>
    /\ err = <<>>
    /\ exit = "returned"
    /\ completedBefore = FALSE

Next ==
    \/ Register
    \/ Login
    \/ Auth
    \/ CreateKb
    \/ Upload
    \/ ConfigureRag
    \/ RunTask
    \/ StartParsing
    \/ CheckTask
    \/ ListDocuments
    \/ TestRetrieval
    \/ ServiceChange

\* every sub-command, against a service with a few states
Spec == Init /\ [][Next]_vars

\* the state a successful login leaves
LoggedIn ==
    LET o == login(NoFile, Response(200, TRUE, 0, TRUE, "Welcome back!", [token |-> <<"a">>]))
    IN  /\ tokenFile = o.file
        /\ fileBefore = NoFile
        /\ cmd = "login"
        /\ args = <<>>
        /\ server = Server0
        /\ sent = o.sent
        /\ out = o.out
        /\ err = o.err
        /\ exit = o.exit
        /\ completedBefore = FALSE

NextDocs == StartParsing \/ ListDocuments \/ DocsChange

\* the document commands of an authenticated operator, against a knowledge
\* base whose documents come, go and change status
SpecDocs == LoggedIn /\ [][NextDocs]_vars

NextTask == CheckTask \/ TaskChange

\* check-task of an authenticated operator, against a task whose progress
\* the service changes at will
SpecTask == LoggedIn /\ [][NextTask]_vars

NextRag == ConfigureRag \/ KbsChange

\* configure-rag of an authenticated operator, against knowledge bases whose
\* parser configuration varies
SpecRag == LoggedIn /\ [][NextRag]_vars

----------------------------------------------------------------------------
(* Vocabulary of the properties. *)

HasMark(lines, mark) == \E i \in 1..Len(lines) : lines[i].mark = mark
HasLine(lines, id) == \E i \in 1..Len(lines) : lines[i].id = id

AUTHENTICATED_COMMANDS ==
    {"create-kb", "upload", "configure-rag", "run-task", "start-parsing", "check-task",
     "list-documents", "test-retrieval"}

\* the exchange succeeded in every respect
Succeeded(r) == r.status = 200 /\ r.json /\ r.code = 0

LETTERS_AND_DIGITS == {"a", "1"}

----------------------------------------------------------------------------
(* C1: register with a password shorter than 9 characters, or with one made *)
(* of letters and digits only, and upload with a path to no file, write an  *)
(* error and end without sending any HTTP request.                          *)
LocalRejectionSendsNothing ==
    /\ (cmd = "register"
        /\ (Len(args.password) < 9 \/ Chars(args.password) \subseteq LETTERS_AND_DIGITS))
       => (sent = <<>> /\ HasMark(err, "cross") /\ out = <<>> /\ tokenFile = fileBefore)
    /\ (cmd = "upload" /\ ~args.exists)
       => (sent = <<>> /\ HasMark(err, "cross"))

\* C1's case: a password long enough but without a symbol was turned down
WeakPasswordRejected ==
    /\ cmd = "register"
    /\ Len(args.password) >= 9
    /\ Chars(args.password) \subseteq LETTERS_AND_DIGITS
    /\ sent = <<>>
    /\ HasLine(err, "password_no_symbol")

----------------------------------------------------------------------------
(* C2: after a successful login or register the credential file exists and  *)
(* holds the token the service issued, and an authenticated command sends   *)
(* as bearer exactly the content of the credential file it found.           *)
PersistedTokenIsIssuedAndSentVerbatim ==
    /\ (cmd \in {"login", "register"} /\ sent # <<>>
        /\ \A i \in 1..Len(sent) : Succeeded(sent[i].resp))
       => tokenFile = FileWith(sent[Len(sent)].resp.data.token)
    /\ (cmd \in AUTHENTICATED_COMMANDS)
       => \A i \in 1..Len(sent) : sent[i].bearer = Bearer(fileBefore.content)

----------------------------------------------------------------------------
(* C3: whatever documents the knowledge base holds, start-parsing sends at  *)
(* most one parse-start request, and when the listing succeeded its         *)
(* document_ids are exactly the ids of the documents of the knowledge base  *)
(* in status UNSTART, FAIL, "0" or "4"; with no such document it sends no   *)
(* parse-start request.                                                     *)
PendingIds ==
    {server.docs[i].id : i \in {j \in 1..Len(server.docs) :
        server.docs[j].hasRun /\ server.docs[j].run \in {"UNSTART", "FAIL", "0", "4"}}}

ParseStarts == SelectSeq(sent, LAMBDA q : q.ep = "POST /api/v1/datasets/{kb_id}/chunks")

ParseStartSelectsEveryPendingDocument ==
    (cmd = "start-parsing" /\ sent # <<>>)
    => /\ Len(ParseStarts) <= 1
       /\ Succeeded(sent[1].resp)
          => /\ (PendingIds = {}) <=> (ParseStarts = <<>>)
             /\ \A i \in 1..Len(ParseStarts) :
                  LET ids == ParseStarts[i].body.document_ids
                  IN  {ids[k] : k \in 1..Len(ids)} = PendingIds

----------------------------------------------------------------------------
(* C4: an authenticated sub-command that finds the credential file absent,  *)
(* or present but empty, ends with the Unauthenticated error and exit code  *)
(* 1 before sending any HTTP request.                                       *)
NoCredentialEndsUnauthenticated ==
    (cmd \in AUTHENTICATED_COMMANDS /\ (~fileBefore.exists \/ fileBefore.content = <<>>))
    => (sent = <<>> /\ exit = "exit1" /\ HasLine(err, "not_authenticated"))

----------------------------------------------------------------------------
(* C5: list-documents prints the overall-completion message if and only if  *)
(* the service returned at least one document and every returned document   *)
(* has status DONE; a document in another status or without one, an empty   *)
(* listing, and a listing that failed all suppress it.                      *)
ReturnedDocs == sent[1].resp.data.docs

CompletionMessageIffAllReturnedDone ==
    (cmd = "list-documents")
    => (HasLine(out, "all_parsed")
        <=> /\ sent # <<>>
            /\ sent[1].resp.json
            /\ sent[1].resp.code = 0
            /\ ReturnedDocs # <<>>
            /\ \A i \in 1..Len(ReturnedDocs) :
                 ReturnedDocs[i].hasRun /\ ReturnedDocs[i].run = "DONE")

\* C5's case: several documents returned, all DONE, and completion announced
AllReturnedDoneAnnounced ==
    /\ cmd = "list-documents"
    /\ sent # <<>>
    /\ Len(ReturnedDocs) >= 2
    /\ \A i \in 1..Len(ReturnedDocs) : ReturnedDocs[i].run = "DONE"
    /\ HasLine(out, "all_parsed")
    /\ ~HasLine(out, "still_processing")

----------------------------------------------------------------------------
(* C6: for every progress p in [0, 1] that a successful check-task poll of  *)
(* a non-empty task returns, the bar shows exactly floor(20 * p) fill       *)
(* characters, and the completion message is written if and only if         *)
(* p >= 1.0.  The product 20 * p is taken both exactly and as the float     *)
(* 20 * p: a bar that agrees with either floor is accepted.                 *)
PolledProgress == sent[1].resp.data.progress

FillsShown ==
    LET bar == (CHOOSE l \in {out[i] : i \in 1..Len(out)} : l.id = "progress_bar").arg
    IN  Cardinality({i \in 1..Len(bar) : bar[i] = FILL})

InUnitInterval(p) == ~p.neg /\ (IntPart(p.m, p.e) = 0 \/ p = FParse(1, 1))

BarShowsFloorOfTwentyTimesProgress ==
    (/\ cmd = "check-task"
     /\ HasLine(out, "progress_bar")
     /\ sent[1].resp.data.hasProgress
     /\ InUnitInterval(PolledProgress))
    => /\ FillsShown \in {IntPart(MulBits(PolledProgress.m, 20), PolledProgress.e),
                          FInt(FMulInt(PolledProgress, 20))}
       /\ HasLine(out, "task_complete") <=> PolledProgress = FParse(1, 1)

----------------------------------------------------------------------------
(* C7: whatever the HTTP status, a response whose envelope has a non-zero   *)
(* code is a failure: the command prints no success confirmation, writes no *)
(* credential file, sends no further request, and writes an error line.     *)
NonZeroCodeIsAlwaysFailure ==
    \A i \in 1..Len(sent) :
      (sent[i].resp.json /\ sent[i].resp.code # 0)
      => /\ ~HasMark(out, "check")
         /\ tokenFile = fileBefore
         /\ i = Len(sent)
         /\ err # <<>>

----------------------------------------------------------------------------
(* C8: an invocation of register, login or auth that reached the service    *)
(* ends either with a token in the credential file or with an error line;   *)
(* it never confirms success with a checkmark while the credential file     *)
(* holds no token.  Invocations that an exception ended are left aside.     *)
CheckmarkOnlyWithTokenPersisted ==
    (cmd \in {"register", "login", "auth"} /\ sent # <<>> /\ exit # "exception")
    => /\ tokenFile.exists \/ HasMark(err, "cross")
       /\ HasMark(out, "check") => tokenFile.exists

----------------------------------------------------------------------------
(* C9: once an exchange of an invocation failed (non-zero code, non-2xx     *)
(* status or unparsable body) the command sends no further request: it      *)
(* neither repeats the request nor falls back to another endpoint.          *)
NoRequestAfterFailedExchange ==
    \A i \in 1..Len(sent) : Failed(sent[i].resp) => i = Len(sent)

----------------------------------------------------------------------------
(* C10: an exchange that failed in transport (non-2xx status, or a body     *)
(* that is not JSON) is shown as an error: the command writes an error      *)
(* line, renders no success, and does not end in an exception nobody        *)
(* handled.                                                                 *)
TransportFailureIsSurfacedAsError ==
    \A i \in 1..Len(sent) :
      (~Is2xx(sent[i].resp) \/ ~sent[i].resp.json)
      => /\ HasMark(err, "cross")
         /\ ~HasMark(out, "check")
         /\ ~HasMark(out, "complete")
         /\ exit # "exception"

----------------------------------------------------------------------------
(* C11: whatever progress a successful check-task poll returns, values      *)
(* below 0.0 and above 1.0 included, the bar has exactly 20 characters,     *)
(* each a fill or an empty character, between 0 and 20 of them fills.       *)
BarShown == (CHOOSE l \in {out[i] : i \in 1..Len(out)} : l.id = "progress_bar").arg

BarIsTwentyCharactersWide ==
    (cmd = "check-task" /\ HasLine(out, "progress_bar"))
    => /\ Len(BarShown) = 20
       /\ \A i \in 1..Len(BarShown) : BarShown[i] \in {FILL, EMPTY}
       /\ Cardinality({i \in 1..Len(BarShown) : BarShown[i] = FILL}) \in 0..20

----------------------------------------------------------------------------
(* C12: an invocation of check-task by an authenticated operator sends      *)
(* exactly one status request, and what it shows is one of four outcomes    *)
(* (no task found, in progress, complete, error) fixed by that poll's       *)
(* response alone, the bar being the one of the progress returned: nothing  *)
(* shown depends on an earlier poll, so a task announced complete before    *)
(* is shown in progress or not found when the service says so.  A command   *)
(* ended by the exception of an unparsable body counts as the error         *)
(* outcome.                                                                 *)
NoTaskShown ==
    HasLine(out, "no_active_task") /\ ~HasLine(out, "progress_bar") /\ err = <<>>

InProgressShown ==
    HasLine(out, "progress_bar") /\ ~HasLine(out, "task_complete") /\ err = <<>>

CompleteShown ==
    HasLine(out, "progress_bar") /\ HasLine(out, "task_complete") /\ err = <<>>

ErrorShown == out = <<>> /\ (HasLine(err, "check_failed") \/ exit = "exception")

\* the poll returned a task, and whether it returned it at 100% or more
PollFoundTask == sent[1].resp.json /\ sent[1].resp.code = 0 /\ ~sent[1].resp.data.empty
PollAtFull ==
    /\ sent[1].resp.data.hasProgress
    /\ ~PolledProgress.neg
    /\ IntPart(PolledProgress.m, PolledProgress.e) >= 1

EachPollIsShownAsReturned ==
    (cmd = "check-task")
    => /\ Len(sent) = 1
       /\ ErrorShown <=> (~sent[1].resp.json \/ sent[1].resp.code # 0)
       /\ NoTaskShown
          <=> (sent[1].resp.json /\ sent[1].resp.code = 0 /\ sent[1].resp.data.empty)
       /\ CompleteShown <=> (PollFoundTask /\ PollAtFull)
       /\ InProgressShown <=> (PollFoundTask /\ ~PollAtFull)
       /\ PollFoundTask
          => BarShown = bar_of(filled_length_of(FMulInt(
                 IF sent[1].resp.data.hasProgress THEN PolledProgress ELSE FZero, 100)))

\* C12's case: a task announced complete by an earlier poll is now shown in
\* progress, at the lower progress the service returned
CompletedTaskShownInProgress ==
    /\ cmd = "check-task"
    /\ completedBefore
    /\ InProgressShown
    /\ sent[1].resp.data.hasProgress
    /\ IntPart(PolledProgress.m, PolledProgress.e) = 0

----------------------------------------------------------------------------
(* C13: the credential file changes only by a successful token acquisition. *)
(* A login or register that fails (rejected locally, or any exchange with a *)
(* non-zero code, a non-200 status or an unparsable body, the token request *)
(* after a successful registration included) leaves the file as it found    *)
(* it; so does auth when its last exchange failed, and every command that   *)
(* ends by exit(1) or by an exception; no other sub-command ever writes or  *)
(* deletes the file.                                                        *)
TOKEN_COMMANDS == {"login", "register", "auth"}

SomeExchangeFailed ==
    \E i \in 1..Len(sent) : sent[i].resp.status # 200 \/ Failed(sent[i].resp)

CredentialFileChangesOnlyOnSuccess ==
    /\ (cmd \notin TOKEN_COMMANDS) => tokenFile = fileBefore
    /\ (cmd \in {"login", "register"} /\ (sent = <<>> \/ SomeExchangeFailed))
       => tokenFile = fileBefore
    /\ (cmd = "auth" /\ Failed(sent[Len(sent)].resp)) => tokenFile = fileBefore
    /\ (exit # "returned") => tokenFile = fileBefore
    /\ (tokenFile # fileBefore)
       => (tokenFile.exists /\ Succeeded(sent[Len(sent)].resp)
           /\ sent[Len(sent)].ep \in {"POST /v1/user/login", "POST /v1/system/new_token"})

\* C13's case: a register whose token request failed after the registration
\* succeeded found a token persisted earlier and left it in place
FailedTokenRequestKeepsEarlierToken ==
    /\ cmd = "register"
    /\ Len(sent) = 2
    /\ Succeeded(sent[1].resp)
    /\ Failed(sent[2].resp)
    /\ fileBefore.exists
    /\ fileBefore.content # <<>>
    /\ tokenFile = fileBefore

----------------------------------------------------------------------------
(* C14: configure-rag of an authenticated operator sends no update request  *)
(* when neither --graphrag nor --raptor is given, or when the fetch of the  *)
(* knowledge base failed (unparsable body or non-zero code) or returned no  *)
(* entry; otherwise it sends exactly one, whose parser_config is the        *)
(* configuration fetched with graphrag.use_graphrag true when --graphrag    *)
(* was given and raptor.use_raptor true when --raptor was given, every      *)
(* other key, every other entry of the two sections, and every section not  *)
(* selected keeping its fetched value.                                      *)
Updates == SelectSeq(sent, LAMBDA q : q.ep = "PUT /api/v1/datasets/{kb_id}")

FetchedKb ==
    sent[1].resp.json /\ sent[1].resp.code = 0 /\ sent[1].resp.data # <<>>

FetchedConfig ==
    IF sent[1].resp.data[1].hasCfg THEN sent[1].resp.data[1].parser_config ELSE EmptyDict

SelectedSections ==
    (IF args.graphrag THEN {"graphrag"} ELSE {}) \cup (IF args.raptor THEN {"raptor"} ELSE {})

ToggleOf(section) == IF section = "graphrag" THEN "use_graphrag" ELSE "use_raptor"

\* cfg is the fetched configuration with the toggles of the selected sections on
OnlySelectedTogglesSet(cfg) ==
    /\ DOMAIN cfg = (DOMAIN FetchedConfig) \cup SelectedSections
    /\ \A k \in (DOMAIN FetchedConfig) \ SelectedSections : cfg[k] = FetchedConfig[k]
    /\ \A s \in SelectedSections :
         LET before == IF s \in DOMAIN FetchedConfig THEN FetchedConfig[s] ELSE EmptyDict
         IN  /\ DOMAIN cfg[s] = (DOMAIN before) \cup {ToggleOf(s)}
             /\ cfg[s][ToggleOf(s)] = TRUE
             /\ \A k2 \in (DOMAIN before) \ {ToggleOf(s)} : cfg[s][k2] = before[k2]

UpdateChangesOnlySelectedToggles ==
    (cmd = "configure-rag")
    => /\ Len(sent) >= 1
       /\ (~FetchedKb \/ SelectedSections = {}) => Updates = <<>>
       /\ (FetchedKb /\ SelectedSections # {})
          => /\ Len(Updates) = 1
             /\ Len(sent) = 2
             /\ OnlySelectedTogglesSet(Updates[1].body.parser_config)

\* C14's case: GraphRAG switched on in a configuration that already had a
\* graphrag section with another entry, which the update keeps
GraphragEnabledKeepingMethod ==
    /\ cmd = "configure-rag"
    /\ args.graphrag
    /\ ~args.raptor
    /\ FetchedKb
    /\ "graphrag" \in DOMAIN FetchedConfig
    /\ FetchedConfig.graphrag.use_graphrag = FALSE
    /\ Len(Updates) = 1
    /\ Updates[1].body.parser_config.graphrag.use_graphrag = TRUE
    /\ Updates[1].body.parser_config.graphrag.method = "light"
    /\ Updates[1].body.parser_config.chunk_token_num = 128

====
